---- MODULE Spec2Model ----
(***************************************************************************)
(* Model of column_water_vapor.py: the class Column_Water_Vapor, which     *)
(* builds r.mapcalc expressions for the MSWCVR column water vapor model.   *)
(*                                                                         *)
(* The module is Python 2 code (xrange; zip returns a list).               *)
(*                                                                         *)
(* A Python string is modelled as a TEXT: the sequence of the pieces it is *)
(* concatenated or formatted from, each piece a string.  Str(text) is the  *)
(* Python string itself.  A neighbour reference ("modifier") is one piece. *)
(***************************************************************************)
EXTENDS Integers, Sequences, FiniteSets, TLC

VARIABLES builders, ret

vars == <<builders, ret>>

(***************************************************************************)
(* Bounds of the model.                                                    *)
(***************************************************************************)
MaxWindow == 3

WindowSizes == (-1)..MaxWindow

Bands == {"B10", "B11"}

Ids == {1, 2}

(***************************************************************************)
(* Python primitives.                                                      *)
(***************************************************************************)

\* the string a text stands for
RECURSIVE Str(_)
Str(text) ==
    IF text = <<>> THEN ""
    ELSE IF Len(text) = 1 THEN text[1]
    ELSE LET mid == Len(text) \div 2
         IN  Str(SubSeq(text, 1, mid)) \o Str(SubSeq(text, mid + 1, Len(text)))

Digits == <<"0", "1", "2", "3", "4", "5", "6", "7", "8", "9">>

RECURSIVE NatToStr(_)
NatToStr(n) == IF n < 10 THEN Digits[n + 1]
               ELSE NatToStr(n \div 10) \o Digits[(n % 10) + 1]

\* str(i) / repr(i) of a Python int
IntToStr(i) == IF i < 0 THEN "-" \o NatToStr(0 - i) ELSE NatToStr(i)

RECURSIVE Pow10(_)
Pow10(k) == IF k = 0 THEN 1 ELSE 10 * Pow10(k - 1)

\* the fraction digits of frac / 10^width, zero padded, trailing zeros dropped
RECURSIVE FracToStr(_, _)
FracToStr(frac, width) ==
    IF width = 0 \/ frac = 0 THEN ""
    ELSE Digits[(frac \div Pow10(width - 1)) + 1]
         \o FracToStr(frac % Pow10(width - 1), width - 1)

\* '{}'.format(f) of a Python float f = mant / 10^scale (shortest repr)
FloatToStr(f) ==
    LET a     == IF f.mant < 0 THEN 0 - f.mant ELSE f.mant
        whole == a \div Pow10(f.scale)
        frac  == a % Pow10(f.scale)
    IN  (IF f.mant < 0 THEN "-" ELSE "") \o NatToStr(whole) \o "."
        \o (IF frac = 0 THEN "0" ELSE FracToStr(frac, f.scale))

\* str(pixel) of a two element list of ints
ListToStr(pixel) ==
    "[" \o IntToStr(pixel[1]) \o ", " \o IntToStr(pixel[2]) \o "]"

\* sep.join(parts), parts a sequence of texts
RECURSIVE Join(_, _)
Join(sep, parts) ==
    IF parts = <<>> THEN <<>>
    ELSE IF Len(parts) = 1 THEN Head(parts)
    ELSE Head(parts) \o <<sep>> \o Join(sep, Tail(parts))

\* a list of strings as a list of one-piece texts
Texts(strings) == [k \in 1..Len(strings) |-> <<strings[k]>>]

\* zip(a, b) of Python 2: a list of pairs, as long as the shorter argument
Zip(a, b) ==
    LET n == IF Len(a) < Len(b) THEN Len(a) ELSE Len(b)
    IN  [k \in 1..n |-> <<a[k], b[k]>>]

(***************************************************************************)
(* Module globals.                                                         *)
(***************************************************************************)
DUMMY_Ti_MEAN == "Mean_Ti"

DUMMY_Tj_MEAN == "Mean_Tj"

DUMMY_Rji == "Ratio_ji"

(***************************************************************************)
(* Methods of Column_Water_Vapor, as functions of the object they read.    *)
(***************************************************************************)

\* inner loop of the comprehension: for row in xrange(height)
RECURSIVE RowLoop(_, _, _)
RowLoop(col, row, height) ==
    IF row >= height THEN <<>>
    ELSE <<<<col - 1, row - 1>>>> \o RowLoop(col, row + 1, height)

\* outer loop of the comprehension: for col in xrange(width)
RECURSIVE ColLoop(_, _, _)
ColLoop(col, width, height) ==
    IF col >= width THEN <<>>
    ELSE RowLoop(col, 0, height) \o ColLoop(col + 1, width, height)

\* the loops the other way round: row outside, col inside
_derive_adjacent_pixels_swapped(self) ==
    [k \in 1..(IF self.window_width > 0 /\ self.window_height > 0
               THEN self.window_width * self.window_height ELSE 0) |->
        <<((k - 1) % self.window_width) - 1,
          ((k - 1) \div self.window_width) - 1>>]

_derive_adjacent_pixels(self) ==
    ColLoop(0, self.window_width, self.window_height)

_derive_modifiers(self, tx) ==
    [k \in 1..Len(self.adjacent_pixels) |->
        tx \o ListToStr(self.adjacent_pixels[k])]

\* dividing by the window size instead of the number of references
_mean_tirs_expression_by_window(self, modifiers) ==
    <<"(">> \o Join(" + ", Texts(modifiers))
    \o <<")", " / ", IntToStr(self.window_size)>>

_mean_tirs_expression(self, modifiers) ==
    LET tx_sum    == Join(" + ", Texts(modifiers))
        tx_length == Len(modifiers)
    IN  <<"(">> \o tx_sum \o <<")", " / ", IntToStr(tx_length)>>

_numerator_for_ratio(self, mean_ti, mean_tj) ==
    LET tim == IF mean_ti = <<>> THEN <<"Ti_mean">> ELSE mean_ti
        tjm == IF mean_tj = <<>> THEN <<"Tj_mean">> ELSE mean_tj
    IN  Join(" + ",
             [k \in 1..Len(self.modifiers) |->
                 <<"(", self.modifiers[k][1], " - ">> \o tim
                 \o <<")", " * ", "(", self.modifiers[k][2], " - ">> \o tjm
                 \o <<")">>])

\* looping over the references of band j instead of band i
_denominator_for_ratio_tj(self, mean_ti) ==
    LET tim == IF mean_ti = <<>> THEN <<"Ti_mean">> ELSE mean_ti
    IN  Join(" + ",
             [k \in 1..Len(self.modifiers_tj) |->
                 <<"(", self.modifiers_tj[k], " - ">> \o tim \o <<")", "^2">>])

_denominator_for_ratio(self, mean_ti) ==
    LET tim == IF mean_ti = <<>> THEN <<"Ti_mean">> ELSE mean_ti
    IN  Join(" + ",
             [k \in 1..Len(self.modifiers_ti) |->
                 <<"(", self.modifiers_ti[k], " - ">> \o tim \o <<")", "^2">>])

_ratio_ji_expression(self) ==
    LET rji_numerator   == _numerator_for_ratio(self, <<DUMMY_Ti_MEAN>>,
                                                <<DUMMY_Tj_MEAN>>)
        rji_denominator == _denominator_for_ratio(self, <<DUMMY_Ti_MEAN>>)
    IN  rji_numerator \o <<" / ">> \o rji_denominator

\* '({c0}) + ({c1}) * ({Rji}) + ({c2}) * ({Rji})^2'.format(...)
CwvFormat(c0, c1, Rji, c2) ==
    <<"(", FloatToStr(c0), ")", " + ", "(", FloatToStr(c1), ")", " * ", "(">>
    \o Rji \o <<")", " + ", "(", FloatToStr(c2), ")", " * ", "(">>
    \o Rji \o <<")", "^2">>

_column_water_vapor_complete_expression(self) ==
    CwvFormat(self.c0, self.c1, self.ratio_ji_expression, self.c2)

\* inlining the ratio, as the complete expression does
_column_water_vapor_expression_inlined(self) ==
    CwvFormat(self.c0, self.c1, self.ratio_ji_expression, self.c2)

_column_water_vapor_expression(self) ==
    CwvFormat(self.c0, self.c1, <<DUMMY_Rji>>, self.c2)

__str__(self) ==
    <<"Expression for r.mapcalc to determine column water vapor: ">>
    \o self.column_water_vapor_expression

_build_cwv_mapcalc(self) ==
    LET modifiers_ti == _derive_modifiers(self, self.ti)
        ti_sum       == Join(" + ", Texts(modifiers_ti))
        ti_length    == Len(modifiers_ti)
        ti_mean      == <<"(">> \o ti_sum \o <<")", " / ", IntToStr(ti_length)>>
        modifiers_tj == _derive_modifiers(self, self.tj)
        tj_sum       == Join(" + ", Texts(modifiers_tj))
        tj_length    == Len(modifiers_tj)
        tj_mean      == <<"(">> \o tj_sum \o <<")", " / ", IntToStr(tj_length)>>
        numerator    == _numerator_for_ratio(self, ti_mean, tj_mean)
        denominator  == _denominator_for_ratio(self, ti_mean)
    IN  <<"eval(", "ti_mean = ">> \o ti_mean
        \o <<",", "\\ \n  ", "tj_mean = ">> \o tj_mean
        \o <<",", "\\ \n  ", "numerator = ">> \o numerator
        \o <<",", "\\ \n  ", "denominator = ">> \o denominator
        \o <<",", "\\ \n  ", "rji = ", "numerator", " / ", "denominator">>
        \o <<",", "\\ \n  ", FloatToStr(self.c0), " + ", FloatToStr(self.c1),
             " * ", "rji", " + ", FloatToStr(self.c2), " * ", "rji", "^2", ")">>

\* the object __init__ leaves behind (the citation text is left out)
__init__(window_size, ti, tj) ==
    LET s1 == [c0 |-> [mant |-> -9674, scale |-> 3],
               c1 |-> [mant |-> 653, scale |-> 3],
               c2 |-> [mant |-> 9087, scale |-> 3],
               window_size   |-> window_size,
               window_height |-> window_size,
               window_width  |-> window_size]
        s2 == s1 @@ [adjacent_pixels |-> _derive_adjacent_pixels(s1),
                     ti |-> ti, tj |-> tj]
        s3 == s2 @@ [modifiers_ti |-> _derive_modifiers(s2, ti),
                     modifiers_tj |-> _derive_modifiers(s2, tj)]
        s4 == s3 @@ [modifiers |-> Zip(s3.modifiers_ti, s3.modifiers_tj)]
        s5 == s4 @@ [mean_ti_expression |->
                         _mean_tirs_expression(s4, s4.modifiers_ti),
                     mean_tj_expression |->
                         _mean_tirs_expression(s4, s4.modifiers_tj)]
        s6 == s5 @@ [ratio_ji_expression |-> _ratio_ji_expression(s5)]
    IN  s6 @@ [column_water_vapor_expression |->
                   _column_water_vapor_expression(s6)]

(***************************************************************************)
(* The state machine: builders holds the objects constructed so far, ret   *)
(* the last method call and what it returned.                              *)
(***************************************************************************)
NoCall == [id |-> 0, method |-> "", args |-> <<>>, value |-> <<>>]

Init ==
    /\ builders = <<>>
    /\ ret = NoCall

\* Column_Water_Vapor(window_size, ti, tj)
Construct(id, window_size, ti, tj) ==
    /\ id \notin DOMAIN builders
    /\ builders' = (id :> __init__(window_size, ti, tj)) @@ builders
    /\ UNCHANGED ret

Returns(id, method, args, value) ==
    /\ ret' = [id |-> id, method |-> method, args |-> args, value |-> value]
    /\ UNCHANGED builders

Call__str__(id) ==
    /\ id \in DOMAIN builders
    /\ Returns(id, "__str__", <<>>, __str__(builders[id]))

Call_derive_modifiers(id, tx) ==
    /\ id \in DOMAIN builders
    /\ Returns(id, "_derive_modifiers", <<<<tx>>>>,
               _derive_modifiers(builders[id], tx))

\* the sequences of neighbour references a caller hands to the mean
MeanInputs(self) ==
    {self.modifiers_ti, self.modifiers_tj, <<"A[0,0]">>, <<"A[0,0]", "A[0,1]">>}

\* the mean arguments a caller hands to the numerator and the denominator:
\* nothing (None or ''), the placeholder, or the builder's mean expression
MeanTiArgs(self) == {<<>>, <<DUMMY_Ti_MEAN>>, self.mean_ti_expression}

MeanTjArgs(self) == {<<>>, <<DUMMY_Tj_MEAN>>, self.mean_tj_expression}

Call_mean_tirs_expression(id, modifiers) ==
    /\ id \in DOMAIN builders
    /\ Returns(id, "_mean_tirs_expression", <<modifiers>>,
               _mean_tirs_expression(builders[id], modifiers))

\* what a generator-like self.modifiers would do: the first loop over it
\* leaves it exhausted
Call_numerator_for_ratio_exhausting(id, mean_ti, mean_tj) ==
    /\ id \in DOMAIN builders
    /\ ret' = [id |-> id, method |-> "_numerator_for_ratio",
               args |-> <<mean_ti, mean_tj>>,
               value |-> _numerator_for_ratio(builders[id], mean_ti, mean_tj)]
    /\ builders' = [builders EXCEPT ![id].modifiers = <<>>]

\* self.modifiers is a list (line 101): looping over it leaves it as it is
Call_numerator_for_ratio(id, mean_ti, mean_tj) ==
    /\ id \in DOMAIN builders
    /\ Returns(id, "_numerator_for_ratio", <<mean_ti, mean_tj>>,
               _numerator_for_ratio(builders[id], mean_ti, mean_tj))

Call_denominator_for_ratio(id, mean_ti) ==
    /\ id \in DOMAIN builders
    /\ Returns(id, "_denominator_for_ratio", <<mean_ti>>,
               _denominator_for_ratio(builders[id], mean_ti))

Call_ratio_ji_expression(id) ==
    /\ id \in DOMAIN builders
    /\ Returns(id, "_ratio_ji_expression", <<>>,
               _ratio_ji_expression(builders[id]))

Call_column_water_vapor_complete_expression(id) ==
    /\ id \in DOMAIN builders
    /\ Returns(id, "_column_water_vapor_complete_expression", <<>>,
               _column_water_vapor_complete_expression(builders[id]))

Call_column_water_vapor_expression(id) ==
    /\ id \in DOMAIN builders
    /\ Returns(id, "_column_water_vapor_expression", <<>>,
               _column_water_vapor_expression(builders[id]))

Call_build_cwv_mapcalc(id) ==
    /\ id \in DOMAIN builders
    /\ Returns(id, "_build_cwv_mapcalc", <<>>,
               _build_cwv_mapcalc(builders[id]))

Next ==
    \/ \E id \in Ids, n \in WindowSizes, ti \in Bands, tj \in Bands :
          Construct(id, n, ti, tj)
    \/ \E id \in DOMAIN builders : Call__str__(id)
    \/ \E id \in DOMAIN builders, tx \in Bands : Call_derive_modifiers(id, tx)
    \/ \E id \in DOMAIN builders :
          \E modifiers \in MeanInputs(builders[id]) :
             Call_mean_tirs_expression(id, modifiers)
    \/ \E id \in DOMAIN builders :
          \E mean_ti \in MeanTiArgs(builders[id]),
             mean_tj \in MeanTjArgs(builders[id]) :
             Call_numerator_for_ratio(id, mean_ti, mean_tj)
    \/ \E id \in DOMAIN builders :
          \E mean_ti \in MeanTiArgs(builders[id]) :
             Call_denominator_for_ratio(id, mean_ti)
    \/ \E id \in DOMAIN builders : Call_ratio_ji_expression(id)
    \/ \E id \in DOMAIN builders :
          Call_column_water_vapor_complete_expression(id)
    \/ \E id \in DOMAIN builders : Call_column_water_vapor_expression(id)
    \/ \E id \in DOMAIN builders : Call_build_cwv_mapcalc(id)

Spec == Init /\ [][Next]_vars

(***************************************************************************)
(* What the properties below read off a text.                              *)
(***************************************************************************)

\* how often the piece tok occurs in text
Count(tok, text) == Cardinality({i \in 1..Len(text) : text[i] = tok})

\* how often the text sub occurs in text
CountOcc(sub, text) ==
    Cardinality({i \in 1..(Len(text) - Len(sub) + 1) :
                    SubSeq(text, i, i + Len(sub) - 1) = sub})

\* the number of parentheses open at piece i of text
DepthAt(text, i) ==
    Cardinality({j \in 1..(i - 1) : text[j] = "("})
    - Cardinality({j \in 1..(i - 1) : text[j] = ")"})

\* the positions of the operator op outside every parenthesis
TopLevel(op, text) ==
    {i \in 1..Len(text) : text[i] = op /\ DepthAt(text, i) = 0}

\* does the builder exist, with a window of at least one pixel
Built(id) == id \in DOMAIN builders

Positive(id) == Built(id) /\ builders[id].window_size >= 1

\* the last call was method, on a builder with a positive window
Called(method) == ret.method = method /\ Positive(ret.id)

\* the offset range the specification documents: [-floor(n/2), ceil(n/2))
DocumentedRange(n) == (0 - (n \div 2))..(((n + 1) \div 2) - 1)

\* band X at offset (a, b), in either spelling of the bracketed pair
Reference(X, a, b) ==
    {X \o "[" \o IntToStr(a) \o "," \o IntToStr(b) \o "]",
     X \o "[" \o IntToStr(a) \o ", " \o IntToStr(b) \o "]"}

(***************************************************************************)
(* C1                                                                      *)
(***************************************************************************)

\* C1: a window size of 0 or less fails at construction: no builder exists
\* with a window size below 1, so none stores or returns a formula.
C1_NonPositiveWindowRejected ==
    \A id \in DOMAIN builders : builders[id].window_size >= 1

(***************************************************************************)
(* C2                                                                      *)
(***************************************************************************)

\* C2: for window size 1 and bands B10, B11 the numerator for the
\* placeholders Mean_Ti, Mean_Tj is the single term at offset (0,0):
\* (B10[0,0] - Mean_Ti) * (B11[0,0] - Mean_Tj).
C2_NumeratorWindowOne ==
    ( /\ Called("_numerator_for_ratio")
      /\ builders[ret.id].window_size = 1
      /\ builders[ret.id].ti = "B10"
      /\ builders[ret.id].tj = "B11"
      /\ ret.args = << <<"Mean_Ti">>, <<"Mean_Tj">> >> )
    => Str(ret.value) \in
           {"(B10[0,0] - Mean_Ti) * (B11[0,0] - Mean_Tj)",
            "(B10[0, 0] - Mean_Ti) * (B11[0, 0] - Mean_Tj)"}

(***************************************************************************)
(* C3                                                                      *)
(***************************************************************************)

\* the text divides one whole group by another: outside the parentheses
\* there is one division and no addition
DividesSums(text) ==
    /\ Cardinality(TopLevel(" / ", text)) = 1
    /\ TopLevel(" + ", text) = {}

\* C3: for every window size n >= 1 the ratio expression denotes (sum of
\* the numerator terms) / (sum of the denominator terms): no addition is
\* left outside the groups the division divides.
C3_RatioDividesSums ==
    /\ \A id \in DOMAIN builders :
          Positive(id) => DividesSums(builders[id].ratio_ji_expression)
    /\ Called("_ratio_ji_expression") => DividesSums(ret.value)

(***************************************************************************)
(* C4                                                                      *)
(***************************************************************************)

\* C4: in the formula of _build_cwv_mapcalc every name is bound once and
\* the text of each band's mean occurs once, as the value bound to
\* ti_mean / tj_mean (bands distinct, so the two mean texts differ).
C4_MeansBoundOnce ==
    ( /\ Called("_build_cwv_mapcalc")
      /\ builders[ret.id].ti # builders[ret.id].tj )
    => /\ \A name \in {"ti_mean = ", "tj_mean = ", "numerator = ",
                       "denominator = ", "rji = "} :
             Count(name, ret.value) = 1
       /\ CountOcc(builders[ret.id].mean_ti_expression, ret.value) = 1
       /\ CountOcc(builders[ret.id].mean_tj_expression, ret.value) = 1

(***************************************************************************)
(* C5                                                                      *)
(***************************************************************************)

\* C5: for n >= 1 every element of _derive_modifiers(X) is X[a,b] with a
\* and b in [-floor(n/2), ceil(n/2)), one element per offset, the k-th
\* element built from the k-th offset.
C5_ModifiersInDocumentedRange ==
    Called("_derive_modifiers") =>
        LET self == builders[ret.id]
            X    == ret.args[1][1]
        IN  /\ Len(ret.value) = Len(self.adjacent_pixels)
            /\ \A k \in 1..Len(ret.value) :
                  \E a \in DocumentedRange(self.window_size),
                     b \in DocumentedRange(self.window_size) :
                     /\ self.adjacent_pixels[k] = <<a, b>>
                     /\ ret.value[k] \in Reference(X, a, b)

(***************************************************************************)
(* C6                                                                      *)
(***************************************************************************)

\* C6: for n >= 1 the offset set has n*n pairwise distinct elements, the
\* pairs (col-1, row-1) with col the outer and row the inner loop; for
\* n = 3 it is the block from (-1,-1) to (1,1).
C6_OffsetSet ==
    \A id \in DOMAIN builders :
        Positive(id) =>
            LET n  == builders[id].window_size
                ap == builders[id].adjacent_pixels
            IN  /\ Len(ap) = n * n
                /\ \A i, j \in 1..Len(ap) : ap[i] = ap[j] => i = j
                /\ \A col, row \in 0..(n - 1) :
                      ap[col * n + row + 1] = <<col - 1, row - 1>>
                /\ n = 3 => {ap[k] : k \in 1..Len(ap)}
                                = ((-1)..1) \X ((-1)..1)

C6_Witness ==
    /\ Built(1) /\ builders[1].window_size = 3
    /\ Built(2) /\ builders[2].window_size = 2

(***************************************************************************)
(* C7                                                                      *)
(***************************************************************************)

\* t1 + t2 + ... + tk, as Python writes it
RECURSIVE SumOf(_, _)
SumOf(terms, k) ==
    IF k = 1 THEN terms[1] ELSE SumOf(terms, k - 1) \o " + " \o terms[k]

\* C7: for N >= 1 references the mean is (t1 + ... + tN) / N in input
\* order; ["A[0,0]"] gives (A[0,0]) / 1; the mean of a window-size-3
\* builder for B10 has 9 terms and divides by the literal 9.
C7_MeanExpression ==
    /\ ( ret.method = "_mean_tirs_expression" /\ Len(ret.args[1]) >= 1 )
         => LET terms == ret.args[1]
            IN  /\ Str(ret.value) = "(" \o SumOf(terms, Len(terms)) \o ") / "
                                        \o IntToStr(Len(terms))
                /\ terms = <<"A[0,0]">> => Str(ret.value) = "(A[0,0]) / 1"
    /\ \A id \in DOMAIN builders :
          ( builders[id].window_size = 3 /\ builders[id].ti = "B10" )
          => LET mean == builders[id].mean_ti_expression
             IN  /\ Count(" + ", mean) = 8
                 /\ Count(" / ", mean) = 1
                 /\ mean[Len(mean)] = "9"
                 /\ Str(mean) =
                      "(B10[-1, -1] + B10[-1, 0] + B10[-1, 1] + B10[0, -1]"
                      \o " + B10[0, 0] + B10[0, 1] + B10[1, -1] + B10[1, 0]"
                      \o " + B10[1, 1]) / 9"

C7_Witness ==
    /\ ret.method = "_mean_tirs_expression"
    /\ ret.args = << <<"A[0,0]">> >>
    /\ Built(ret.id) /\ builders[ret.id].window_size = 3
    /\ builders[ret.id].ti = "B10"

(***************************************************************************)
(* C8                                                                      *)
(***************************************************************************)

\* C8: whatever the window size and the bands, the symbolic CWV expression
\* stored at construction is
\* (-9.674) + (0.653) * (Ratio_ji) + (9.087) * (Ratio_ji)^2.
C8_SymbolicExpression ==
    \A id \in DOMAIN builders :
        Str(builders[id].column_water_vapor_expression)
            = "(-9.674) + (0.653) * (Ratio_ji) + (9.087) * (Ratio_ji)^2"

C8_Witness ==
    /\ Built(1) /\ builders[1].window_size = 3
    /\ Built(2) /\ builders[2].window_size = 0
    /\ builders[1].ti # builders[2].ti

(***************************************************************************)
(* C9                                                                      *)
(***************************************************************************)

\* the mean a call with argument arg writes into its terms
MeanWritten(arg, default) == IF arg = <<>> THEN default ELSE Str(arg)

\* the term of the denominator for offset k
DenominatorTerm(self, mean, k) ==
    "(" \o self.ti \o ListToStr(self.adjacent_pixels[k]) \o " - " \o mean
    \o ")^2"

\* C9: the denominator has one term (Ti_k - mean)^2 per ti reference, joined
\* with " + " in offset order, and does not depend on band j: builders that
\* differ only in band j give the same denominator for the same mean.
C9_DenominatorOnlyTi ==
    /\ ( ret.method = "_denominator_for_ratio" /\ Built(ret.id) )
         => LET self == builders[ret.id]
                mean == MeanWritten(ret.args[1], "Ti_mean")
                N    == Len(self.adjacent_pixels)
            IN  /\ Count("^2", ret.value) = N
                /\ N >= 1 =>
                     Str(ret.value) =
                        SumOf([k \in 1..N |-> DenominatorTerm(self, mean, k)],
                              N)
                /\ self.tj # self.ti =>
                     \A k \in 1..N : Count(self.modifiers_tj[k], ret.value) = 0
    /\ \A i, j \in DOMAIN builders :
          ( /\ builders[i].window_size = builders[j].window_size
            /\ builders[i].ti = builders[j].ti )
          => \A mean \in MeanTiArgs(builders[i]) :
                _denominator_for_ratio(builders[i], mean)
                    = _denominator_for_ratio(builders[j], mean)

C9_Witness ==
    /\ Built(1) /\ Built(2)
    /\ builders[1].window_size = 3 /\ builders[2].window_size = 3
    /\ builders[1].ti = builders[2].ti
    /\ builders[1].tj # builders[2].tj
    /\ ret.method = "_denominator_for_ratio"
    /\ ret.id = 1 /\ builders[1].tj # builders[1].ti
    /\ ret.args = << <<DUMMY_Ti_MEAN>> >>

(***************************************************************************)
(* C10                                                                     *)
(***************************************************************************)

\* one step keeps every builder as it is, repeats the value of a repeated
\* call and gives the numerator one term per offset
C10_Step ==
    /\ \A id \in DOMAIN builders : builders'[id] = builders[id]
    /\ ( /\ ret'.id = ret.id
         /\ ret'.method = ret.method
         /\ ret'.args = ret.args )
       => ret'.value = ret.value
    /\ ret'.method = "_numerator_for_ratio"
       => Count(" * ", ret'.value)
              = Len(builders'[ret'.id].adjacent_pixels)

\* C10: a builder is immutable after construction: no call of a method
\* changes an attribute, a repeated call returns the same string, and the
\* numerator always has one term per offset.
C10_Immutable == [][C10_Step]_vars

C10_Witness ==
    /\ ret.method = "_numerator_for_ratio"
    /\ Built(ret.id) /\ builders[ret.id].window_size = 3
    /\ Count(" * ", ret.value) = 9
    /\ Built(1) /\ Built(2)

====
